---- MODULE Spec2Model ----
(***************************************************************************)
(* Model of the ERA-Interim CMORizer                                       *)
(* (esmvaltool/cmorizers/obs/cmorize_obs_era_interim.py): the file         *)
(* resolver _get_files, the dispatcher cmorization with its process pool   *)
(* and result-collection loop, and the per-task transform                  *)
(* _extract_variable; and of the latitude flip of the Duveiller2018        *)
(* CMORizer (esmvaltool/cmorizers/obs/cmorize_obs_duveiller2018.py).       *)
(***************************************************************************)
EXTENDS Integers, Sequences, FiniteSets, TLC

(***************************************************************************)
(* Bounds of the model.                                                    *)
(***************************************************************************)
MaxYears == 2
MaxFiles == 4
MaxVars == 2
MaxCpu == 2

(***************************************************************************)
(* Input files.  A file stem is ERA-Interim_<raw>[_<extra>]_<year>: the    *)
(* raw field it holds, an optional extra "_"-delimited token, and the      *)
(* trailing token.  A glob pattern ERA-Interim_<raw>_*.nc is modelled by   *)
(* the raw field it names; "*" also matches stems with the extra token.    *)
(***************************************************************************)
NoPattern == 0
PatA == 1
PatB == 2
PatT == 3
Patterns == {PatA, PatB, PatT}
Years == 2000 .. (2000 + MaxYears - 1)
\* the stems the model draws directories from: one stem carries the extra
\* token, ERA-Interim_<PatA>_x_2000
AllFiles ==
    {f \in [raw : Patterns, extra : {0, 1}, year : Years] :
        f.extra = 1 => (f.raw = PatA /\ f.year = 2000)}

\* Path(in_dir).glob(pattern): the files of the directory the pattern matches
Glob(dir, pattern) == {f \in dir : f.raw = pattern}

\* ordering of the paths as sorted() compares them: raw name, then the rest
\* of the stem ("2000" < "2001" < "x_2000" < "x_2001")
PathKey(f) == (f.raw * 2 + f.extra) * 10000 + f.year

RECURSIVE sorted(_)
sorted(S) ==
    IF S = {} THEN <<>>
    ELSE LET m == CHOOSE x \in S : \A y \in S : PathKey(x) <= PathKey(y)
         IN  <<m>> \o sorted(S \ {m})

\* year = str(item.stem).split('_')[-1]
YearToken(item) == item.year

\* files_dict[year].append(item) on a defaultdict(list); the dict is a
\* sequence of [year, paths] entries in insertion order
DictAppend(files_dict, item) ==
    LET year == YearToken(item) IN
    IF \E i \in 1 .. Len(files_dict) : files_dict[i].year = year
    THEN [i \in 1 .. Len(files_dict) |->
            IF files_dict[i].year = year
            THEN [files_dict[i] EXCEPT !.paths = Append(@, item)]
            ELSE files_dict[i]]
    ELSE Append(files_dict, [year |-> year, paths |-> <<item>>])

RECURSIVE AppendAll(_, _)
AppendAll(files_dict, files_lst) ==
    IF files_lst = <<>> THEN files_dict
    ELSE AppendAll(DictAppend(files_dict, Head(files_lst)), Tail(files_lst))

\* the first loop of _get_files: for in_file in var['files']
RECURSIVE CollectFiles(_, _, _)
CollectFiles(files_dict, dir, pats) ==
    IF pats = <<>> THEN files_dict
    ELSE CollectFiles(AppendAll(files_dict, sorted(Glob(dir, Head(pats)))),
                      dir, Tail(pats))

\* the completeness check left out: every collected year is returned
_get_files_unchecked(in_dir, var) == CollectFiles(<<>>, in_dir, var.files)

\* _get_files: collect, then pop every year whose path count differs from
\* the number of patterns
_get_files(in_dir, var) ==
    SelectSeq(CollectFiles(<<>>, in_dir, var.files),
              LAMBDA g : Len(g.paths) = Len(var.files))

(***************************************************************************)
(* The variable registry cfg['variables']: an ordered dict of entries.  An *)
(* entry has the key 'file' (file # NoPattern) or the key 'files'          *)
(* (files # <<>>) with an 'operator' ("none": the key is absent), the raw   *)
(* field name/s under 'raw' (one per pattern) and the table under 'mip'.   *)
(***************************************************************************)
VarTas == [short_name |-> "tas", file |-> PatT, files |-> <<>>, operator |-> "none",
           raw |-> <<"t2m">>, mip |-> "Amon"]
VarPr == [short_name |-> "pr", file |-> NoPattern, files |-> <<PatA, PatB>>, operator |-> "sum",
          raw |-> <<"cp", "lsp">>, mip |-> "day"]
VarRss == [short_name |-> "rss", file |-> NoPattern, files |-> <<PatB, PatA>>, operator |-> "mean",
           raw |-> <<"ssr", "str">>, mip |-> "day"]
VarShapes == {VarTas, VarPr, VarRss}

\* the registries the dispatcher is run on hold entries that can be CMORized
Registries ==
    {r \in UNION {[1 .. n -> {VarTas, VarPr}] : n \in 1 .. MaxVars} :
        \A i, j \in DOMAIN r : i # j => r[i].short_name # r[j].short_name}

Directories == {d \in SUBSET AllFiles : Cardinality(d) <= MaxFiles}

VARIABLES
    in_dir,       \* the content of the input directory
    variables,    \* cfg['variables']
    cpu_count,    \* os.cpu_count()
    pc,           \* position of cmorization
    n_workers,    \* the local n_workers, logged as "Using at most n workers"
    max_workers,  \* the size the ProcessPoolExecutor was created with
    var_idx,      \* index of the variable the submission loop is at
    todo,         \* submissions of the current variable not yet made
    futures,      \* the submitted tasks in submission order: the dict futures
    fstate,       \* state of each future
    to_yield,     \* the futures as_completed has still to yield
    log           \* the outcomes logged by the result-collection loop

dvars == <<in_dir, variables, cpu_count, pc, n_workers, max_workers, var_idx,
           todo, futures, fstate, to_yield, log>>

\* one transform task: a call of _extract_variable (ERA-Interim) or of
\* extract_variable (Duveiller2018)
VARIABLES
    dataset,      \* which CMORizer the task belongs to
    x_var,        \* the registry entry var of the task
    definition,   \* the CMOR table entry of the variable
    in_cubes,     \* per input file, in group order: the field of interest
    cube,         \* the local variable cube of the task
    fc_cube,      \* the local variable cube of _fix_coordinates at its end
    freq_arg,     \* the cube _fix_frequency was called with
    artifacts,    \* the cubes written by save_variable
    x_pc,         \* position of the task
    x_steps       \* the steps of the task completed so far

xvars == <<dataset, x_var, definition, in_cubes, cube, fc_cube, freq_arg,
           artifacts, x_pc, x_steps>>

\* the objects the dispatcher and its tasks hold references to
VARIABLES
    heap,         \* the objects created so far; a reference is an index
    attributes,   \* per started task: the reference its local attributes holds
    cube_refs     \* per task that loaded: the reference its local cube holds

hvars == <<heap, attributes, cube_refs>>

\* one call of _set_global_attributes, and the same rules applied one by one
\* in an order of choice
VARIABLES
    r_in,         \* the cube the function is called with
    r_definition, \* the CMOR table entry it is called with
    r_out,        \* the cube when the function has returned
    rule_order,   \* an order of the six rules
    r_done,       \* how many rules of rule_order were applied
    r_cube        \* the cube after these rules

rvars == <<r_in, r_definition, r_out, rule_order, r_done, r_cube>>

\* one call of _fix_frequency
VARIABLES
    q_var,        \* the registry entry var it is called with
    q_in,         \* the cube it is called with, as it was at the call
    q_cube,       \* the local variable cube of the function
    q_pc,         \* position of the function
    q_steps       \* the sub-steps completed so far

qvars == <<q_var, q_in, q_cube, q_pc, q_steps>>

\* one call of fix_time_coord_duveiller2018
VARIABLES
    t_coord,            \* the coordinate of the cube the function works on
    t_pc,               \* position of the function
    n_month,            \* the month the loop of lines 59-71 is at (0: before it)
    custom_time,        \* the datetime objects filled in so far
    custom_time_bounds, \* the pairs of datetime objects filled in so far
    time_bnds,          \* the converted bounds
    time_midpoints      \* the converted points

tvars == <<t_coord, t_pc, n_month, custom_time, custom_time_bounds, time_bnds,
           time_midpoints>>

pvars == <<rvars, qvars, tvars>>

vars == <<dvars, xvars, hvars, pvars>>

\* a local variable that names no object
Unbound == [unbound |-> TRUE]

\* no call of _set_global_attributes is modelled
NoRules ==
    /\ r_in = Unbound
    /\ r_definition = Unbound
    /\ r_out = Unbound
    /\ rule_order = <<>>
    /\ r_done = 0
    /\ r_cube = Unbound

\* no call of _fix_frequency is modelled
NoFrequency ==
    /\ q_var = Unbound
    /\ q_in = Unbound
    /\ q_cube = Unbound
    /\ q_pc = "none"
    /\ q_steps = <<>>

\* no call of fix_time_coord_duveiller2018 is modelled
NoTime ==
    /\ t_coord = Unbound
    /\ t_pc = "none"
    /\ n_month = 0
    /\ custom_time = <<>>
    /\ custom_time_bounds = <<>>
    /\ time_bnds = Unbound
    /\ time_midpoints = Unbound

\* no transform task is modelled
NoTask ==
    /\ dataset = "none"
    /\ x_var = Unbound
    /\ definition = Unbound
    /\ in_cubes = <<>>
    /\ cube = Unbound
    /\ fc_cube = Unbound
    /\ freq_arg = Unbound
    /\ artifacts = <<>>
    /\ x_pc = "none"
    /\ x_steps = <<>>

\* the reference cfg['attributes'] holds
CfgAttributes == 1

\* the dict cfg['attributes'] as read from the configuration file
NoObjects ==
    /\ heap = <<[comment |-> "template", mip |-> "none", positive |-> "none"]>>
    /\ attributes = [f \in {} |-> 0]
    /\ cube_refs = [f \in {} |-> 0]

\* a local variable of task f bound to reference r
Bind(locals, f, r) ==
    [g \in DOMAIN locals \cup {f} |-> IF g = f THEN r ELSE locals[g]]

\* the reference handed on in place of a copy
deepcopy_alias(h, r) == [heap |-> h, ref |-> r]

\* copy.deepcopy of the dict behind r: a new object with equal content
deepcopy(h, r) == [heap |-> Append(h, h[r]), ref |-> Len(h) + 1]

\* n_workers = int(cpu_count() / 1.5): truncation of 2 * cpu_count / 3
NWorkers(cpus) == (2 * cpus) \div 3

\* the executor is created with max_workers=1
PoolSize(n) == 1

\* the loop over the sorted paths missing the first one
FileTasks_skip_first(v) ==
    IF variables[v].file # NoPattern
    THEN LET lst == sorted(Glob(in_dir, variables[v].file))
         IN  [i \in 1 .. Len(lst) - 1 |->
                 [var |-> v, kind |-> "file", key |-> <<lst[i + 1]>>]]
    ELSE <<>>

\* the tasks one pass of the loop body submits for a variable: one per
\* sorted path of the 'file' glob, then one per key of _get_files
FileTasks(v) ==
    IF variables[v].file # NoPattern
    THEN LET lst == sorted(Glob(in_dir, variables[v].file))
         IN  [i \in 1 .. Len(lst) |->
                 [var |-> v, kind |-> "file", key |-> <<lst[i]>>]]
    ELSE <<>>

GroupTasks(v) ==
    IF variables[v].files # <<>>
    THEN LET files_dict == _get_files(in_dir, variables[v])
         IN  [i \in 1 .. Len(files_dict) |->
                 [var |-> v, kind |-> "files", key |-> files_dict[i].paths]]
    ELSE <<>>

Running == {f \in DOMAIN fstate : fstate[f] = "running"}
Done == {f \in DOMAIN fstate : fstate[f] \in {"ok", "raised"}}
\* how many times the collection loop handled the outcome of future f
Observed(f) == Cardinality({i \in DOMAIN log : log[i].fut = f})

DispatchInit ==
    /\ in_dir \in Directories
    /\ variables \in Registries
    /\ cpu_count \in 1 .. MaxCpu
    /\ pc = "start"
    /\ n_workers = 0
    /\ max_workers = 0
    /\ var_idx = 0
    /\ todo = <<>>
    /\ futures = <<>>
    /\ fstate = <<>>
    /\ to_yield = {}
    /\ log = <<>>
    /\ NoTask
    /\ NoObjects
    /\ NoRules
    /\ NoFrequency
    /\ NoTime

\* lines 291-298: the comment of cfg['attributes'] is formatted in place,
\* n_workers is computed and logged, the pool is created
Setup ==
    /\ pc = "start"
    /\ heap' = [heap EXCEPT ![CfgAttributes].comment = "formatted"]
    /\ n_workers' = NWorkers(cpu_count)
    /\ max_workers' = PoolSize(NWorkers(cpu_count))
    /\ pc' = "submit"
    /\ UNCHANGED <<xvars, attributes, cube_refs>>
    /\ UNCHANGED pvars
    /\ UNCHANGED <<in_dir, variables, cpu_count, var_idx, todo, futures, fstate, to_yield, log>>

\* line 299: the loop over cfg['variables'].items() moves to the next entry
NextVariable ==
    /\ pc = "submit"
    /\ todo = <<>>
    /\ var_idx < Len(variables)
    /\ var_idx' = var_idx + 1
    /\ todo' = FileTasks(var_idx + 1) \o GroupTasks(var_idx + 1)
    /\ UNCHANGED <<xvars, hvars>>
    /\ UNCHANGED pvars
    /\ UNCHANGED <<in_dir, variables, cpu_count, pc, n_workers, max_workers,
                   futures, fstate, to_yield, log>>

\* the submissions of a variable made from the last one to the first
Submit_reversed ==
    /\ pc = "submit"
    /\ todo # <<>>
    /\ futures' = Append(futures, todo[Len(todo)])
    /\ fstate' = Append(fstate, "pending")
    /\ todo' = SubSeq(todo, 1, Len(todo) - 1)
    /\ UNCHANGED <<xvars, hvars>>
    /\ UNCHANGED pvars
    /\ UNCHANGED <<in_dir, variables, cpu_count, pc, n_workers, max_workers,
                   var_idx, to_yield, log>>

\* lines 304-306 and 312-314: executor.submit and futures[future] = key
Submit ==
    /\ pc = "submit"
    /\ todo # <<>>
    /\ futures' = Append(futures, Head(todo))
    /\ fstate' = Append(fstate, "pending")
    /\ todo' = Tail(todo)
    /\ UNCHANGED <<xvars, hvars>>
    /\ UNCHANGED pvars
    /\ UNCHANGED <<in_dir, variables, cpu_count, pc, n_workers, max_workers,
                   var_idx, to_yield, log>>

\* a worker process of the pool takes the oldest queued call; lines
\* 217-218: the call copies cfg['attributes'] and sets 'mip' in its copy
WorkerStart ==
    /\ Cardinality(Running) < max_workers
    /\ \E f \in DOMAIN fstate :
        /\ fstate[f] = "pending"
        /\ \A g \in DOMAIN fstate : fstate[g] = "pending" => f <= g
        /\ fstate' = [fstate EXCEPT ![f] = "running"]
        /\ LET c == deepcopy(heap, CfgAttributes)
           IN  /\ heap' = [c.heap EXCEPT ![c.ref].mip = variables[futures[f].var].mip]
               /\ attributes' = Bind(attributes, f, c.ref)
    /\ UNCHANGED <<xvars, cube_refs>>
    /\ UNCHANGED pvars
    /\ UNCHANGED <<in_dir, variables, cpu_count, pc, n_workers, max_workers,
                   var_idx, todo, futures, to_yield, log>>

\* _extract_variable can only complete when a cube was loaded: a 'files'
\* entry whose operator is not 'sum' leaves cube unbound (lines 242-261)
CanSucceed(task) ==
    task.kind = "file" \/ variables[task.var].operator = "sum"

\* _extract_variable returns: iris.load_cube created the cube of the call
\* (lines 242-259), which was named and saved; the future holds a result
TaskReturns ==
    /\ \E f \in Running :
        /\ CanSucceed(futures[f])
        /\ fstate' = [fstate EXCEPT ![f] = "ok"]
        /\ heap' = Append(heap, [var_name |-> variables[futures[f].var].short_name])
        /\ cube_refs' = Bind(cube_refs, f, Len(heap) + 1)
    /\ UNCHANGED <<xvars, attributes>>
    /\ UNCHANGED pvars
    /\ UNCHANGED <<in_dir, variables, cpu_count, pc, n_workers, max_workers,
                   var_idx, todo, futures, to_yield, log>>

\* _extract_variable raises: the future holds the exception.  The object
\* iris.load_cube works on (lines 242-259) exists whether the load or a
\* later step raised; an entry that loads nothing created none
TaskRaises ==
    /\ \E f \in Running :
        /\ fstate' = [fstate EXCEPT ![f] = "raised"]
        /\ IF CanSucceed(futures[f])
           THEN /\ heap' = Append(heap, [var_name |-> variables[futures[f].var].raw[1]])
                /\ cube_refs' = Bind(cube_refs, f, Len(heap) + 1)
           ELSE UNCHANGED <<heap, cube_refs>>
    /\ UNCHANGED <<xvars, attributes>>
    /\ UNCHANGED pvars
    /\ UNCHANGED <<in_dir, variables, cpu_count, pc, n_workers, max_workers,
                   var_idx, todo, futures, to_yield, log>>

\* the pool left with shutdown(wait=False): collection starts while calls
\* are still queued or running
ExitPool_nowait ==
    /\ pc = "submit"
    /\ todo = <<>>
    /\ var_idx = Len(variables)
    /\ pc' = "collect"
    /\ to_yield' = DOMAIN futures
    /\ UNCHANGED <<xvars, hvars>>
    /\ UNCHANGED pvars
    /\ UNCHANGED <<in_dir, variables, cpu_count, n_workers, max_workers,
                   var_idx, todo, futures, fstate, log>>

\* end of the with block: executor.shutdown(wait=True) returns when every
\* submitted call has finished; then as_completed(futures) takes the set of
\* the futures
ExitPool ==
    /\ pc = "submit"
    /\ todo = <<>>
    /\ var_idx = Len(variables)
    /\ Done = DOMAIN fstate
    /\ pc' = "collect"
    /\ to_yield' = DOMAIN futures
    /\ UNCHANGED <<xvars, hvars>>
    /\ UNCHANGED pvars
    /\ UNCHANGED <<in_dir, variables, cpu_count, n_workers, max_workers,
                   var_idx, todo, futures, fstate, log>>

\* an iteration that leaves the future among those still to yield
CollectFinished_again ==
    /\ pc = "collect"
    /\ \E f \in to_yield \cap Done :
        /\ fstate[f] = "ok"
        /\ log' = Append(log, [msg |-> "Finished", fut |-> f, key |-> futures[f].key])
    /\ UNCHANGED <<xvars, hvars>>
    /\ UNCHANGED pvars
    /\ UNCHANGED <<in_dir, variables, cpu_count, pc, n_workers, max_workers,
                   var_idx, todo, futures, fstate, to_yield>>

\* the success logged with in_file, the key of the last submission
CollectFinished_last_key ==
    /\ pc = "collect"
    /\ \E f \in to_yield \cap Done :
        /\ fstate[f] = "ok"
        /\ to_yield' = to_yield \ {f}
        /\ log' = Append(log, [msg |-> "Finished", fut |-> f,
                                key |-> futures[Len(futures)].key])
    /\ UNCHANGED <<xvars, hvars>>
    /\ UNCHANGED pvars
    /\ UNCHANGED <<in_dir, variables, cpu_count, pc, n_workers, max_workers,
                   var_idx, todo, futures, fstate>>

\* lines 316-322, one iteration on a future whose result() returns
CollectFinished ==
    /\ pc = "collect"
    /\ \E f \in to_yield \cap Done :
        /\ fstate[f] = "ok"
        /\ to_yield' = to_yield \ {f}
        /\ log' = Append(log, [msg |-> "Finished", fut |-> f, key |-> futures[f].key])
    /\ UNCHANGED <<xvars, hvars>>
    /\ UNCHANGED pvars
    /\ UNCHANGED <<in_dir, variables, cpu_count, pc, n_workers, max_workers,
                   var_idx, todo, futures, fstate>>

\* the handler logging the failure without the raise
CollectFailed_swallow ==
    /\ pc = "collect"
    /\ \E f \in to_yield \cap Done :
        /\ fstate[f] = "raised"
        /\ to_yield' = to_yield \ {f}
        /\ log' = Append(log, [msg |-> "Failed", fut |-> f, key |-> futures[f].key])
    /\ UNCHANGED <<xvars, hvars>>
    /\ UNCHANGED pvars
    /\ UNCHANGED <<in_dir, variables, cpu_count, pc, n_workers, max_workers,
                   var_idx, todo, futures, fstate>>

\* lines 316-321, one iteration on a future whose result() raises: the
\* failure is logged and the exception leaves cmorization
CollectFailed ==
    /\ pc = "collect"
    /\ \E f \in to_yield \cap Done :
        /\ fstate[f] = "raised"
        /\ to_yield' = to_yield \ {f}
        /\ log' = Append(log, [msg |-> "Failed", fut |-> f, key |-> futures[f].key])
    /\ pc' = "raised"
    /\ UNCHANGED <<xvars, hvars>>
    /\ UNCHANGED pvars
    /\ UNCHANGED <<in_dir, variables, cpu_count, n_workers, max_workers,
                   var_idx, todo, futures, fstate>>

\* as_completed(futures) is exhausted: cmorization returns
Return ==
    /\ pc = "collect"
    /\ to_yield = {}
    /\ pc' = "returned"
    /\ UNCHANGED <<xvars, hvars>>
    /\ UNCHANGED pvars
    /\ UNCHANGED <<in_dir, variables, cpu_count, n_workers, max_workers,
                   var_idx, todo, futures, fstate, to_yield, log>>

DispatchNext ==
    \/ Setup
    \/ NextVariable
    \/ Submit
    \/ WorkerStart
    \/ TaskReturns
    \/ TaskRaises
    \/ ExitPool
    \/ CollectFinished
    \/ CollectFailed
    \/ Return

Spec == DispatchInit /\ [][DispatchNext]_vars

(***************************************************************************)
(* Properties of the file resolver and of the dispatcher.                  *)
(***************************************************************************)
File(raw, extra, year) == [raw |-> raw, extra |-> extra, year |-> year]

\* the year entries the first loop of _get_files collects for variable v
Collected(v) == CollectFiles(<<>>, in_dir, variables[v].files)

\* C1: every group _get_files returns for a multi-pattern variable with k
\* patterns has exactly k paths, and no task is ever submitted (or waiting to
\* be submitted) for a year whose collected path count differs from k.
C1_GroupsHaveOnePathPerPattern ==
    /\ \A v \in DOMAIN variables :
        LET files_dict == _get_files(in_dir, variables[v])
        IN  \A i \in DOMAIN files_dict :
                Len(files_dict[i].paths) = Len(variables[v].files)
    /\ \A t \in {futures[i] : i \in DOMAIN futures} \cup {todo[i] : i \in DOMAIN todo} :
        t.kind = "files" =>
            /\ Len(t.key) = Len(variables[t.var].files)
            /\ \A i \in DOMAIN Collected(t.var) :
                Len(Collected(t.var)[i].paths) # Len(variables[t.var].files)
                    => Collected(t.var)[i].paths # t.key

\* both raw fields present for 2000, only one for 2001: after submission the
\* only task of the sum variable is the group of 2000
C1_Witness ==
    /\ in_dir = {File(PatA, 0, 2000), File(PatB, 0, 2000), File(PatA, 0, 2001)}
    /\ variables = <<VarPr>>
    /\ pc = "collect"
    /\ Len(futures) = 1
    /\ futures[1].key = <<File(PatA, 0, 2000), File(PatB, 0, 2000)>>

\* C2: a group is submitted only if it holds exactly one file matched by each
\* required pattern, the i-th path matched by the i-th pattern.
C2_OneFilePerPatternInOrder ==
    \A f \in DOMAIN futures :
        futures[f].kind = "files" =>
            /\ Len(futures[f].key) = Len(variables[futures[f].var].files)
            /\ \A i \in DOMAIN futures[f].key :
                futures[f].key[i] \in Glob(in_dir, variables[futures[f].var].files[i])

\* C3: cmorization ends with a propagated exception when some submitted task
\* raised, and returns normally only when no submitted task raised.
C3_RaisesIffSomeTaskRaised ==
    /\ pc = "returned" => \A f \in DOMAIN fstate : fstate[f] = "ok"
    /\ pc = "raised" => \E f \in DOMAIN fstate : fstate[f] = "raised"
    /\ (pc = "collect" /\ to_yield = {}) => \A f \in DOMAIN fstate : fstate[f] = "ok"

\* the exception of one task propagates although another task succeeded and
\* was collected first
C3_Witness ==
    /\ pc = "raised"
    /\ Len(futures) >= 2
    /\ \E f \in DOMAIN fstate : fstate[f] = "ok" /\ Observed(f) = 1

\* C4 as stated: when cmorization has ended, the outcome of every dispatched
\* task was observed by the collection loop exactly once.
C4_EveryOutcomeObservedExactlyOnce ==
    pc \in {"returned", "raised"} =>
        \A f \in DOMAIN futures : Observed(f) = 1

\* C4 amended: no outcome is observed twice; when cmorization returns every
\* outcome was observed exactly once; when it raises, the outcome that raised
\* is the last one observed, exactly once, every outcome observed before it
\* is a success, and the futures not yet iterated stay unobserved.
C4_ObservedAtMostOnce ==
    /\ \A f \in DOMAIN futures : Observed(f) <= 1
    /\ pc = "returned" => \A f \in DOMAIN futures : Observed(f) = 1
    /\ pc = "raised" =>
        /\ log # <<>>
        /\ log[Len(log)].msg = "Failed"
        /\ fstate[log[Len(log)].fut] = "raised"
        /\ \A i \in 1 .. Len(log) - 1 : log[i].msg = "Finished"
        /\ \A f \in to_yield : Observed(f) = 0

\* a run that raised after one success, leaving a third outcome unobserved
C4_Witness ==
    /\ pc = "raised"
    /\ Len(log) = 2
    /\ to_yield # {}

\* C5: a raising task changes the state of no other task; when cmorization
\* ends, by return or by exception, every submitted task has run to
\* completion; and nothing is submitted once the exception has propagated.
C5_SiblingsRunToCompletion ==
    /\ [](pc \in {"collect", "returned", "raised"} => Done = DOMAIN futures)
    /\ [][\A f \in DOMAIN fstate :
            (fstate[f] = "running" /\ fstate'[f] = "raised") =>
                \A g \in DOMAIN fstate \ {f} : fstate'[g] = fstate[g]]_vars
    /\ [][pc = "raised" => (futures' = futures /\ fstate' = fstate)]_vars

\* the first task raised, a later one still ran and returned
C5_Witness ==
    /\ pc = "raised"
    /\ Len(futures) >= 3
    /\ futures[1].var # futures[3].var
    /\ fstate[1] = "raised"
    /\ \A f \in DOMAIN fstate \ {1} : fstate[f] = "ok"

\* C6: the pool size is the logged n_workers, a fraction of cpu_count that is
\* at least 1, and no more tasks than that run at the same time.
C6_PoolSizeIsLoggedFraction ==
    pc # "start" =>
        /\ n_workers >= 1
        /\ max_workers = n_workers
        /\ Cardinality(Running) <= n_workers

\* C7: tasks are submitted variable by variable in registry order, the paths
\* of a single-pattern variable in sorted order, the groups of a multi-pattern
\* variable in the key order of the dict _get_files returns, and every task
\* of an earlier variable before any task of a later one.
C7_SubmissionOrder ==
    /\ \A i, j \in DOMAIN futures :
        i < j =>
            /\ futures[i].var <= futures[j].var
            /\ (futures[i].var = futures[j].var /\ futures[i].kind = "file"
                    /\ futures[j].kind = "file")
                => PathKey(futures[i].key[1]) < PathKey(futures[j].key[1])
    /\ \A v \in DOMAIN variables :
        LET grp == SelectSeq(futures, LAMBDA t : t.var = v /\ t.kind = "files")
            files_dict == _get_files(in_dir, variables[v])
        IN  /\ Len(grp) <= Len(files_dict)
            /\ \A i \in DOMAIN grp : grp[i].key = files_dict[i].paths
    /\ \A i \in DOMAIN futures :
        \A u \in 1 .. futures[i].var - 1 :
            Cardinality({j \in 1 .. i : futures[j].var = u})
                = Cardinality(Glob(in_dir, variables[u].file))
                    + Len(_get_files(in_dir, variables[u]))

\* two groups submitted in dict key order 2001, 2000 (the first pattern's
\* sorted matches start with year 2001) for the second variable of the
\* registry, after the first variable, which has no input, was passed
C7_Witness ==
    /\ variables = <<VarTas, VarPr>>
    /\ var_idx = 2
    /\ Len(futures) = 2
    /\ futures[1].key = <<File(PatA, 0, 2001), File(PatB, 0, 2001)>>
    /\ futures[2].key = <<File(PatA, 1, 2000), File(PatB, 0, 2000)>>

\* the submission loop has finished the registry entry v
VarSubmitted(v) == var_idx > v \/ (var_idx = v /\ todo = <<>>)

\* C11: for a single-pattern variable exactly one task per path the glob
\* matches is submitted, each with that single path; a variable whose
\* pattern (or resolver) yields nothing gets no task, raises nothing, and
\* the variables after it are still processed.
C11_OneTaskPerMatchedPath ==
    /\ \A v \in DOMAIN variables :
        VarSubmitted(v) =>
            LET mine == {i \in DOMAIN futures : futures[i].var = v}
                single == {i \in mine : futures[i].kind = "file"}
                matched == Glob(in_dir, variables[v].file)
            IN  /\ {futures[i].key : i \in single} = {<<f>> : f \in matched}
                /\ Cardinality(single) = Cardinality(matched)
                /\ (matched = {} /\ _get_files(in_dir, variables[v]) = <<>>)
                    => mine = {}
    /\ pc \in {"collect", "returned", "raised"} => var_idx = Len(variables)
    /\ pc = "raised" => futures # <<>>

\* the single-pattern variable matches nothing; the variable after it still
\* got its task and the run returned
C11_Witness ==
    /\ variables = <<VarTas, VarPr>>
    /\ Glob(in_dir, PatT) = {}
    /\ pc = "returned"
    /\ Len(futures) = 1
    /\ futures[1].var = 2

\* C13: as soon as a task has completed, its outcome can be
\* handled by the collection loop, also while other submitted tasks are
\* still queued or running.
C13_CompletionsHandledAsTheyArrive ==
    (/\ pc \notin {"returned", "raised"}
     /\ \E f \in DOMAIN fstate : fstate[f] \in {"ok", "raised"} /\ Observed(f) = 0
     /\ \E g \in DOMAIN fstate : fstate[g] \in {"pending", "running"})
        => ENABLED (CollectFinished \/ CollectFailed)

\* C18: every logged outcome carries the key its task was submitted with,
\* 'Finished' for a task that returned and 'Failed' for one that raised, the
\* failure logged before the exception propagates; when all N tasks succeed
\* the run returns with exactly N 'Finished' entries, one per task.
C18_OutcomeLoggedWithItsKey ==
    /\ \A i \in DOMAIN log :
        /\ log[i].key = futures[log[i].fut].key
        /\ log[i].msg = "Finished" <=> fstate[log[i].fut] = "ok"
        /\ log[i].msg = "Failed" <=> fstate[log[i].fut] = "raised"
    /\ pc = "raised" => (log # <<>> /\ log[Len(log)].msg = "Failed")
    /\ (pc \in {"returned", "raised"} /\ \A f \in DOMAIN fstate : fstate[f] = "ok") =>
        /\ pc = "returned"
        /\ Len(log) = Len(futures)
        /\ \A f \in DOMAIN futures :
            Cardinality({i \in DOMAIN log :
                log[i].msg = "Finished" /\ log[i].key = futures[f].key}) = 1

\* X_2000 and X_2001 of a single-pattern variable: two tasks, both logged
\* as finished, the run returned
C18_Witness ==
    /\ variables = <<VarTas>>
    /\ in_dir = {File(PatT, 0, 2000), File(PatT, 0, 2001)}
    /\ pc = "returned"
    /\ Len(log) = 2
    /\ \A i \in DOMAIN log : log[i].msg = "Finished"

\* C12: tasks share no mutable state: each task works on its own deep copy
\* of cfg['attributes'], so setting 'mip' in one task leaves
\* cfg['attributes'] and the attributes of every other task unchanged, and
\* the cube a task created is held by no other task.
C12_TasksShareNoState ==
    /\ heap[CfgAttributes] =
        [comment |-> IF pc = "start" THEN "template" ELSE "formatted",
         mip |-> "none", positive |-> "none"]
    /\ \A f \in DOMAIN attributes :
        /\ attributes[f] # CfgAttributes
        /\ heap[attributes[f]] =
            [comment |-> "formatted", mip |-> variables[futures[f].var].mip,
             positive |-> "none"]
        /\ \A g \in DOMAIN attributes : f # g => attributes[f] # attributes[g]
        /\ \A g \in DOMAIN cube_refs : attributes[f] # cube_refs[g]
    /\ \A f \in DOMAIN cube_refs :
        /\ cube_refs[f] # CfgAttributes
        /\ \A g \in DOMAIN cube_refs : f # g => cube_refs[f] # cube_refs[g]

\* a task of table Amon and a task of table day have both run
C12_Witness ==
    /\ pc = "collect"
    /\ Len(futures) = 2
    /\ DOMAIN cube_refs = {1, 2}
    /\ heap[attributes[1]].mip = "Amon"
    /\ heap[attributes[2]].mip = "day"

(***************************************************************************)
(* The transform task.  A cube is modelled by its values along dimension 1 *)
(* (data), the points and bounds of the latitude coordinate spanning that  *)
(* dimension, its scalar height coordinate (0: none) and, per axis, the    *)
(* metadata of the coordinate.                                             *)
(***************************************************************************)
MaxLat == 3
LatVals == {2 * k : k \in 0 .. MaxLat - 1}
DataVals == {0, 1}
Axes == <<"T", "X", "Y", "Z">>
CubeAxes == {"T", "X", "Y"}

\* the raw files hold latitude from north to south
LatPoints ==
    {p \in UNION {[1 .. n -> LatVals] : n \in 1 .. MaxLat} :
        \A i \in 1 .. Len(p) - 1 : p[i] > p[i + 1]}

\* contiguous cells around decreasing points
RawBounds(p) == [i \in 1 .. Len(p) |-> <<p[i] + 1, p[i] - 1>>]

RawMeta(bounds) ==
    [a \in CubeAxes |->
        [var_name |-> CASE a = "T" -> "time" [] a = "X" -> "longitude"
                        [] OTHER -> "latitude",
         units |-> IF a = "T" THEN "hours since 1900-01-01" ELSE "degrees",
         dtype |-> "float32",
         bounds |-> IF a = "Y" THEN bounds # <<>> ELSE FALSE]]

\* a unit is the exponent of each base unit; a product of units adds the
\* exponents, a quotient subtracts them.  "we" stands for 'of water
\* equivalent', "pct" for %
NoUnit == [b \in {"m", "kg", "s", "day", "K", "we", "pct"} |-> 0]
UnitTimes(u, v) == [b \in DOMAIN u |-> u[b] + v[b]]
UnitOver(u, v) == [b \in DOMAIN u |-> u[b] - v[b]]

\* the scaling applied to the data so far, a fraction
One == [num |-> 1, den |-> 1]
ScaleTimes(x, k) == [x EXCEPT !.num = @ * k]
ScaleOver(x, q) == [num |-> x.num * q.den, den |-> x.den * q.num]

\* the raw ERA-Interim names the rules know, and one they do not
RawNames ==
    {"e", "sf", "tp", "pev", "ssr", "ssrd", "tisr", "hfds", "iews", "inss",
     "lsm", "tcc", "z", "t2m"}

\* the units a raw field comes with
RawUnits(name) ==
    CASE name \in {"e", "sf"} -> [NoUnit EXCEPT !.m = 1, !.we = 1]
      [] name \in {"tp", "pev", "cp", "lsp"} -> [NoUnit EXCEPT !.m = 1]
      [] name \in {"ssr", "ssrd", "tisr", "hfds", "str"} -> [NoUnit EXCEPT !.kg = 1, !.s = -2]
      [] name \in {"iews", "inss"} -> [NoUnit EXCEPT !.kg = 1, !.m = -1, !.s = -1]
      [] name \in {"z"} -> [NoUnit EXCEPT !.m = 2, !.s = -2]
      [] name \in {"t2m"} -> [NoUnit EXCEPT !.K = 1]
      [] OTHER -> NoUnit

RawCube(points, bounds, data) ==
    [var_name |-> "raw", data |-> data, lat_points |-> points,
     lat_bounds |-> bounds, height |-> 0, meta |-> RawMeta(bounds),
     units |-> NoUnit, scale |-> One, positive |-> "unset"]

\* the entries of the CMOR table: dimensions, the axes with a coord_def,
\* and the units
DefTas == [dimensions |-> {"time", "latitude", "longitude", "height2m"},
           coordinates |-> {"T", "X", "Y"},
           units |-> [NoUnit EXCEPT !.K = 1]]
DefUas == [dimensions |-> {"time", "latitude", "longitude", "height10m"},
           coordinates |-> {"T", "X", "Y"},
           units |-> [NoUnit EXCEPT !.m = 1, !.s = -1]]
DefPr == [dimensions |-> {"time", "latitude", "longitude"},
          coordinates |-> {"T", "X", "Y"},
          units |-> [NoUnit EXCEPT !.kg = 1, !.m = -2, !.s = -1]]
DefSftlf == [dimensions |-> {"latitude", "longitude"},
             coordinates |-> {"X", "Y"},
             units |-> [NoUnit EXCEPT !.pct = 1]]
Definitions == {DefTas, DefUas, DefPr, DefSftlf}

\* the out_name and units of coord_def
OutName(a) ==
    CASE a = "T" -> "time" [] a = "X" -> "lon" [] a = "Y" -> "lat" [] OTHER -> "plev"
OutUnits(a, units) ==
    CASE a = "T" -> "days since 1850-1-1 00:00:00.0" [] a = "Z" -> "Pa" [] OTHER -> units

\* a 'files' entry without the key 'operator'
VarHfds == [short_name |-> "hfds", file |-> NoPattern, files |-> <<PatA, PatB>>, operator |-> "none",
            raw |-> <<"ssr", "str">>, mip |-> "day"]
\* a 'file' entry whose raw field is matched by two rules
VarEvspsbl == [short_name |-> "evspsbl", file |-> PatT, files |-> <<>>, operator |-> "none",
               raw |-> <<"e">>, mip |-> "day"]
TaskVars == VarShapes \cup {VarHfds, VarEvspsbl}

Reverse(s) == [i \in 1 .. Len(s) |-> s[Len(s) + 1 - i]]

\* a slice that reverses the data and leaves the coordinate as it was
LatReversed_data_only(c) == [c EXCEPT !.data = Reverse(@)]

\* cube[:, ::-1, ...]: a new cube, dimension 1 reversed; the coordinate of
\* that dimension is indexed with the same slice, points and bounds rows
LatReversed(c) ==
    [c EXCEPT !.data = Reverse(@),
              !.lat_points = Reverse(@),
              !.lat_bounds = Reverse(@)]

\* coord.guess_bounds(): cell edges half way to the neighbouring points
GuessBounds(p) ==
    [i \in 1 .. Len(p) |->
        LET before == IF i = 1 THEN p[2] - p[1] ELSE p[i] - p[i - 1]
            after == IF i = Len(p) THEN p[i] - p[i - 1] ELSE p[i + 1] - p[i]
        IN  <<p[i] - before \div 2, p[i] + after \div 2>>]

\* number of points of the coordinate of an axis (time and longitude are not
\* modelled point by point: two points each)
NPoints(c, a) == IF a = "Y" THEN Len(c.lat_points) ELSE 2

\* _fix_coordinates raises: cube.coord(axis=...) finds no coordinate, or
\* guess_bounds is called on a coordinate that has bounds
FixCoordinatesRaises(c, def) ==
    \E a \in def.coordinates :
        \/ a \notin CubeAxes
        \/ NPoints(c, a) > 1 /\ c.meta[a].bounds

\* the cube _fix_coordinates has built when it ends
_fix_coordinates(c, def) ==
    LET sliced == LatReversed(c)
        height == IF "height10m" \in def.dimensions THEN 10
                  ELSE IF "height2m" \in def.dimensions THEN 2
                  ELSE sliced.height
        fixY == "Y" \in def.coordinates /\ Len(sliced.lat_points) > 1
    IN  [sliced EXCEPT
            !.height = height,
            !.lat_bounds = IF fixY THEN GuessBounds(sliced.lat_points) ELSE @,
            !.meta = [a \in CubeAxes |->
                        IF a \in def.coordinates
                        THEN [var_name |-> OutName(a),
                              units |-> OutUnits(a, sliced.meta[a].units),
                              dtype |-> "float64",
                              bounds |-> sliced.meta[a].bounds \/ NPoints(sliced, a) > 1]
                        ELSE sliced.meta[a]]]

\* cube += in_cube over the group: elementwise sum, metadata of the first
RECURSIVE SumCubes(_)
SumCubes(cubes) ==
    IF Len(cubes) = 1 THEN cubes[1]
    ELSE LET rest == SumCubes(SubSeq(cubes, 1, Len(cubes) - 1))
         IN  [rest EXCEPT !.data =
                [i \in DOMAIN rest.data |-> rest.data[i] + cubes[Len(cubes)].data[i]]]

\* an input file holds the field of interest and one more field
OtherField(c) ==
    [c EXCEPT !.var_name = "other",
              !.data = [i \in DOMAIN c.data |-> 1 - c.data[i]]]
InFile(c) == <<OtherField(c), c>>

\* the first field of the file, whatever its name
load_cube_any_name(fields, name) == fields[1]

\* iris.load_cube(path, constraint=utils.var_name_constraint(name)): the one
\* field of the file with that var_name; Unbound stands for the
\* ConstraintMismatchError raised when there is not exactly one
load_cube(fields, name) ==
    LET found == {k \in DOMAIN fields : fields[k].var_name = name}
    IN  IF Cardinality(found) = 1
        THEN fields[CHOOSE k \in found : TRUE]
        ELSE Unbound

\* lines 242-259: in_cube of the i-th pass of the loop over in_file, or the
\* cube of a single file
InCube(var, cubes, i) == load_cube(InFile(cubes[i]), var.raw[i])

\* lines 242-259 raise: var['operator'] of an entry without that key, or a
\* load that finds no field
LoadRaises(var, cubes) ==
    IF var.files # <<>>
    THEN \/ var.operator = "none"
         \/ /\ var.operator = "sum"
            /\ \E i \in DOMAIN cubes : InCube(var, cubes, i) = Unbound
    ELSE InCube(var, cubes, 1) = Unbound

\* lines 242-259: the value of the local cube after loading
Loaded(var, cubes) ==
    IF var.files # <<>>
    THEN IF var.operator = "sum"
         THEN [SumCubes([i \in DOMAIN cubes |-> InCube(var, cubes, i)])
                  EXCEPT !.var_name = var.short_name]
         ELSE Unbound
    ELSE InCube(var, cubes, 1)

\* lines 101-125: the six rules in the order of the code
NRules == 6

\* the hfds rule of the radiation fluxes left out
RuleNames_without_hfds(r) ==
    CASE r = 1 -> {"e", "sf"}
      [] r = 2 -> {"e", "sf", "tp", "pev"}
      [] r = 3 -> {"ssr", "ssrd", "tisr"}
      [] r = 4 -> {"iews", "inss"}
      [] r = 5 -> {"lsm", "tcc"}
      [] OTHER -> {"z"}

\* the unit reset applied to total precipitation as well
RuleNames_tp_reset(r) ==
    CASE r = 1 -> {"e", "sf", "tp"}
      [] r = 2 -> {"e", "sf", "tp", "pev"}
      [] r = 3 -> {"ssr", "ssrd", "tisr", "hfds"}
      [] r = 4 -> {"iews", "inss"}
      [] r = 5 -> {"lsm", "tcc"}
      [] OTHER -> {"z"}

\* the names the condition of rule r tests cube.var_name against
RuleNames(r) ==
    CASE r = 1 -> {"e", "sf"}
      [] r = 2 -> {"e", "sf", "tp", "pev"}
      [] r = 3 -> {"ssr", "ssrd", "tisr", "hfds"}
      [] r = 4 -> {"iews", "inss"}
      [] r = 5 -> {"lsm", "tcc"}
      [] OTHER -> {"z"}

\* the acceleration of gravity 9.80665 as a fraction
Gravity == [num |-> 980665, den |-> 100000]

\* one if statement of _set_global_attributes
ApplyRule(r, c, def) ==
    IF c.var_name \notin RuleNames(r) THEN c
    ELSE CASE r = 1 -> [c EXCEPT !.units = [NoUnit EXCEPT !.m = 1]]
           [] r = 2 -> [c EXCEPT
                          !.units = UnitTimes(@, [NoUnit EXCEPT !.kg = 1, !.m = -3, !.day = -1]),
                          !.scale = ScaleTimes(@, 1000)]
           [] r = 3 -> [c EXCEPT
                          !.units = UnitTimes(@, [NoUnit EXCEPT !.day = -1]),
                          !.positive = "down"]
           [] r = 4 -> [c EXCEPT !.positive = "down"]
           [] r = 5 -> [c EXCEPT !.units = def.units,
                                 !.scale = ScaleTimes(@, 100)]
           [] OTHER -> [c EXCEPT
                          !.units = UnitOver(@, [NoUnit EXCEPT !.m = 1, !.s = -2]),
                          !.scale = ScaleOver(@, Gravity)]

\* the rules of the sequence order applied one after the other
RECURSIVE ApplyRules(_, _, _)
ApplyRules(order, c, def) ==
    IF order = <<>> THEN c
    ELSE ApplyRules(Tail(order), ApplyRule(Head(order), c, def), def)

\* lines 97-125 (the global attributes of utils.set_global_atts are not part
\* of the cube as modelled)
_set_global_attributes(c, def) ==
    ApplyRules([r \in 1 .. NRules |-> r], c, def)

\* np.flip of points, of bounds along both axes, and of the data
DuveillerFlip(c) ==
    [c EXCEPT !.lat_points = Reverse(@),
              !.lat_bounds = [i \in 1 .. Len(@) |->
                                <<@[Len(@) + 1 - i][2], @[Len(@) + 1 - i][1]>>],
              !.data = Reverse(@)]

NoDispatch ==
    /\ in_dir = {}
    /\ variables = <<>>
    /\ cpu_count = 1
    /\ pc = "none"
    /\ n_workers = 0
    /\ max_workers = 0
    /\ var_idx = 0
    /\ todo = <<>>
    /\ futures = <<>>
    /\ fstate = <<>>
    /\ to_yield = {}
    /\ log = <<>>
    /\ NoObjects

TaskInit ==
    /\ NoDispatch
    /\ NoRules
    /\ NoFrequency
    /\ NoTime
    /\ dataset \in {"ERA-Interim", "Duveiller2018"}
    /\ x_var \in IF dataset = "ERA-Interim" THEN TaskVars ELSE {VarTas}
    /\ definition \in IF dataset = "ERA-Interim" THEN Definitions ELSE {DefPr}
    /\ \E p \in LatPoints :
        \E b \in {<<>>, RawBounds(p)} :
            \E k \in {IF x_var.files # <<>> THEN Len(x_var.files) ELSE 1} :
                \E datas \in [1 .. k -> [1 .. Len(p) -> DataVals]] :
                    \E miss \in IF dataset = "ERA-Interim" THEN 0 .. k ELSE {0} :
                        in_cubes = [i \in 1 .. k |->
                            [RawCube(p, b, datas[i]) EXCEPT
                                !.var_name = IF i = miss THEN "other" ELSE x_var.raw[i],
                                !.units = RawUnits(x_var.raw[i])]]
    /\ cube = Unbound
    /\ fc_cube = Unbound
    /\ freq_arg = Unbound
    /\ artifacts = <<>>
    /\ x_pc = "start"
    /\ x_steps = <<>>

\* lines 211-259: table lookup and load/combine
Load ==
    /\ dataset = "ERA-Interim"
    /\ x_pc = "start"
    /\ ~LoadRaises(x_var, in_cubes)
    /\ cube' = Loaded(x_var, in_cubes)
    /\ x_pc' = "loaded"
    /\ x_steps' = Append(x_steps, "load")
    /\ UNCHANGED <<dataset, x_var, definition, in_cubes, fc_cube, freq_arg, artifacts>>
    /\ UNCHANGED <<dvars, hvars>>
    /\ UNCHANGED pvars

\* lines 261-269: _set_global_attributes, names, float32; an unbound cube
\* raises instead
SetGlobalAttributes ==
    /\ x_pc = "loaded"
    /\ cube # Unbound
    /\ cube' = [_set_global_attributes(cube, definition)
                   EXCEPT !.var_name = x_var.short_name]
    /\ x_pc' = "attributes"
    /\ x_steps' = Append(x_steps, "attributes")
    /\ UNCHANGED <<dataset, x_var, definition, in_cubes, fc_cube, freq_arg, artifacts>>
    /\ UNCHANGED <<dvars, hvars>>
    /\ UNCHANGED pvars

\* line 271: _fix_coordinates(cube, definition); what the function built
\* stays in its own local variable and the caller's cube is the same object
\* as before
FixCoordinates ==
    /\ x_pc = "attributes"
    /\ ~FixCoordinatesRaises(LatReversed(cube), definition)
    /\ fc_cube' = _fix_coordinates(cube, definition)
    /\ cube' = cube
    /\ x_pc' = "coordinates"
    /\ x_steps' = Append(x_steps, "coordinates")
    /\ UNCHANGED <<dataset, x_var, definition, in_cubes, freq_arg, artifacts>>
    /\ UNCHANGED <<dvars, hvars>>
    /\ UNCHANGED pvars

\* line 272: cube = _fix_frequency(cube, var); the function works along the
\* time dimension and leaves dimension 1 and its coordinate as they are
FixFrequency ==
    /\ x_pc = "coordinates"
    /\ freq_arg' = cube
    /\ cube' = cube
    /\ x_pc' = "frequency"
    /\ x_steps' = Append(x_steps, "frequency")
    /\ UNCHANGED <<dataset, x_var, definition, in_cubes, fc_cube, artifacts>>
    /\ UNCHANGED <<dvars, hvars>>
    /\ UNCHANGED pvars

\* line 275: cube.convert_units(definition.units)
ConvertUnits ==
    /\ x_pc = "frequency"
    /\ x_pc' = "converted"
    /\ x_steps' = Append(x_steps, "convert")
    /\ UNCHANGED <<dataset, x_var, definition, in_cubes, cube, fc_cube, freq_arg, artifacts>>
    /\ UNCHANGED <<dvars, hvars>>
    /\ UNCHANGED pvars

\* save_variable called again on the same cube
Save_again ==
    /\ x_pc = "converted"
    /\ artifacts' = Append(artifacts, cube)
    /\ Len(artifacts) < 2
    /\ x_steps' = Append(x_steps, "save")
    /\ UNCHANGED <<dataset, x_var, definition, in_cubes, cube, fc_cube, freq_arg, x_pc>>
    /\ UNCHANGED <<dvars, hvars>>
    /\ UNCHANGED pvars

\* lines 277-286: utils.save_variable writes the artifact
Save ==
    /\ x_pc = "converted"
    /\ artifacts' = Append(artifacts, cube)
    /\ x_pc' = "saved"
    /\ x_steps' = Append(x_steps, "save")
    /\ UNCHANGED <<dataset, x_var, definition, in_cubes, cube, fc_cube, freq_arg>>
    /\ UNCHANGED <<dvars, hvars>>
    /\ UNCHANGED pvars

\* the step the task is at raises: the exception leaves _extract_variable
StepRaises ==
    /\ dataset = "ERA-Interim"
    /\ x_pc \in {"start", "loaded", "attributes", "coordinates", "frequency", "converted"}
    /\ x_pc' = "failed"
    /\ UNCHANGED <<dataset, x_var, definition, in_cubes, cube, fc_cube, freq_arg,
                   artifacts, x_steps>>
    /\ UNCHANGED <<dvars, hvars>>
    /\ UNCHANGED pvars

\* extract_variable of the Duveiller2018 CMORizer, lines 119-132: the flip
\* of latitude, then save; np.flip of absent bounds raises
extract_variable ==
    /\ dataset = "Duveiller2018"
    /\ x_pc = "start"
    /\ \/ /\ in_cubes[1].lat_bounds # <<>>
          /\ cube' = DuveillerFlip(in_cubes[1])
          /\ artifacts' = <<DuveillerFlip(in_cubes[1])>>
          /\ x_pc' = "saved"
          /\ x_steps' = <<"flip", "save">>
       \/ /\ in_cubes[1].lat_bounds = <<>>
          /\ x_pc' = "failed"
          /\ UNCHANGED <<cube, artifacts, x_steps>>
    /\ UNCHANGED <<dataset, x_var, definition, in_cubes, fc_cube, freq_arg>>
    /\ UNCHANGED <<dvars, hvars>>
    /\ UNCHANGED pvars

TaskNext ==
    \/ Load
    \/ SetGlobalAttributes
    \/ FixCoordinates
    \/ FixFrequency
    \/ ConvertUnits
    \/ Save
    \/ StepRaises
    \/ extract_variable

SpecTask == TaskInit /\ [][TaskNext]_vars

(***************************************************************************)
(* Properties of the transform task.                                       *)
(***************************************************************************)
StepOrder == <<"load", "attributes", "coordinates", "frequency", "convert", "save">>

\* C8: for every shape of the registry entry, the steps of one
\* _extract_variable call are completed in the order load/combine,
\* attribute and unit normalization, coordinate normalization, frequency
\* resampling, final unit conversion, save; exactly one artifact is written
\* when the call returns and none when it fails; save comes after all the
\* earlier steps and is never called twice.
C8_StepsInOrderOneArtifactOrNone ==
    dataset = "ERA-Interim" =>
        /\ Len(x_steps) <= Len(StepOrder)
        /\ x_steps = SubSeq(StepOrder, 1, Len(x_steps))
        /\ Len(artifacts) <= 1
        /\ artifacts # <<>> => (x_steps = StepOrder /\ x_pc = "saved")
        /\ x_pc = "saved" => Len(artifacts) = 1
        /\ x_pc = "failed" => artifacts = <<>>
        /\ (x_var.files # <<>> /\ x_var.operator # "sum") => x_pc # "saved"

\* the sum of two raw fields went through every step and was saved once
C8_Witness ==
    /\ dataset = "ERA-Interim"
    /\ x_var = VarPr
    /\ x_pc = "saved"
    /\ x_steps = StepOrder
    /\ Len(artifacts) = 1

\* index j of new holds the data, the point and the bound cell that index
\* n+1-j of old held
ReversedTogether(old, new) ==
    LET n == Len(old.lat_points) IN
    /\ Len(new.lat_points) = n
    /\ Len(new.data) = n
    /\ Len(new.lat_bounds) = Len(old.lat_bounds)
    /\ \A j \in 1 .. n :
        /\ new.lat_points[j] = old.lat_points[n + 1 - j]
        /\ new.data[j] = old.data[n + 1 - j]
        /\ old.lat_bounds # <<>> =>
            {new.lat_bounds[j][1], new.lat_bounds[j][2]}
                = {old.lat_bounds[n + 1 - j][1], old.lat_bounds[n + 1 - j][2]}

\* C9: the latitude reversal (the slice of _fix_coordinates and the flips of
\* the Duveiller2018 extract_variable) reverses points, bounds and data
\* together, and applying it twice gives back points, bounds and data.
C9_ReversalTogetherAndInvolution ==
    /\ (dataset = "ERA-Interim" /\ cube # Unbound) =>
        /\ ReversedTogether(cube, LatReversed(cube))
        /\ LatReversed(LatReversed(cube)) = cube
    /\ (dataset = "ERA-Interim" /\ fc_cube # Unbound) =>
        /\ fc_cube.data = Reverse(cube.data)
        /\ fc_cube.lat_points = Reverse(cube.lat_points)
    /\ (dataset = "Duveiller2018" /\ x_pc = "saved") =>
        /\ ReversedTogether(in_cubes[1], cube)
        /\ DuveillerFlip(cube) = in_cubes[1]

\* _fix_coordinates has reversed a cube whose data differ at the two ends
C9_Witness ==
    /\ dataset = "ERA-Interim"
    /\ x_pc = "coordinates"
    /\ Len(cube.lat_points) >= 3
    /\ cube.data[1] # cube.data[Len(cube.data)]
    /\ fc_cube.data[1] = cube.data[Len(cube.data)]
    /\ fc_cube.lat_points[1] = cube.lat_points[Len(cube.lat_points)]

\* the state coordinate normalization is to leave a cube in
Normalized(c) ==
    /\ \A i \in 1 .. Len(c.lat_points) - 1 : c.lat_points[i] < c.lat_points[i + 1]
    /\ "height2m" \in definition.dimensions => c.height = 2
    /\ "height10m" \in definition.dimensions => c.height = 10
    /\ \A a \in definition.coordinates \cap CubeAxes :
        /\ c.meta[a].var_name = OutName(a)
        /\ c.meta[a].units = OutUnits(a, c.meta[a].units)
        /\ c.meta[a].dtype = "float64"
        /\ NPoints(c, a) > 1 => c.meta[a].bounds

\* C10: the cube handed to frequency resampling and then to save is the cube
\* as changed by coordinate normalization: latitude strictly increasing, the
\* required scalar height present, the coordinates with the names, units,
\* float64 points and bounds _fix_coordinates set.
C10_NormalizedCubeIsHandedOn ==
    dataset = "ERA-Interim" =>
        /\ freq_arg # Unbound => (freq_arg = fc_cube /\ Normalized(freq_arg))
        /\ \A i \in DOMAIN artifacts : Normalized(artifacts[i])


\* the sum over the fields 1 .. n of cs of the value at position j
RECURSIVE TotalAt(_, _, _)
TotalAt(cs, j, n) == IF n = 0 THEN 0 ELSE TotalAt(cs, j, n - 1) + cs[n].data[j]

\* C19: for a multi-file variable with operator 'sum' the i-th path of the
\* group is loaded with the field named var['raw'][i], and the cube handed
\* on is the elementwise sum of those fields, every path contributing once,
\* named with the target short name.
C19_SumOfNamedFieldsInGroupOrder ==
    (/\ x_pc = "loaded"
     /\ x_var.files # <<>>
     /\ x_var.operator = "sum")
        => /\ \A i \in DOMAIN in_cubes : in_cubes[i].var_name = x_var.raw[i]
           /\ Len(in_cubes) = Len(x_var.files)
           /\ cube.var_name = x_var.short_name
           /\ DOMAIN cube.data = DOMAIN in_cubes[1].data
           /\ \A j \in DOMAIN cube.data :
                cube.data[j] = TotalAt(in_cubes, j, Len(in_cubes))
           /\ cube.lat_points = in_cubes[1].lat_points

\* two fields that differ were summed
C19_Witness ==
    /\ x_pc = "loaded"
    /\ x_var = VarPr
    /\ in_cubes[1].data = <<0, 1>>
    /\ in_cubes[2].data = <<1, 1>>
    /\ cube.data = <<1, 2>>


(***************************************************************************)
(* _set_global_attributes on its own: the function is called once on a raw *)
(* field, and next to it the same six rules are applied one by one in an   *)
(* order of choice.                                                        *)
(***************************************************************************)
RuleOrders ==
    {o \in [1 .. NRules -> 1 .. NRules] : \A i, j \in 1 .. NRules : i # j => o[i] # o[j]}

AttributesInit ==
    /\ NoDispatch
    /\ NoTask
    /\ NoFrequency
    /\ NoTime
    /\ \E name \in RawNames :
        r_in = [var_name |-> name, units |-> RawUnits(name), scale |-> One,
                positive |-> "unset"]
    /\ r_definition \in {DefPr, DefSftlf}
    /\ r_out = Unbound
    /\ rule_order \in RuleOrders
    /\ r_done = 0
    /\ r_cube = r_in

\* line 261: the call _set_global_attributes(cube, attributes, definition)
CallSetGlobalAttributes ==
    /\ r_out = Unbound
    /\ r_out' = _set_global_attributes(r_in, r_definition)
    /\ UNCHANGED <<r_in, r_definition, rule_order, r_done, r_cube>>
    /\ UNCHANGED <<dvars, xvars, hvars, qvars, tvars>>

\* the next rule of rule_order is applied
ApplyNextRule ==
    /\ r_done < NRules
    /\ r_cube' = ApplyRule(rule_order[r_done + 1], r_cube, r_definition)
    /\ r_done' = r_done + 1
    /\ UNCHANGED <<r_in, r_definition, r_out, rule_order>>
    /\ UNCHANGED <<dvars, xvars, hvars, qvars, tvars>>

AttributesNext == CallSetGlobalAttributes \/ ApplyNextRule

SpecAttributes == AttributesInit /\ [][AttributesNext]_vars

\* the rules whose condition holds for the raw name
Matched(name) == {r \in 1 .. NRules : name \in RuleNames(r)}
\* rule a stands before rule b in rule_order
Before(a, b) ==
    \E i, j \in 1 .. NRules : i < j /\ rule_order[i] = a /\ rule_order[j] = b

\* C14: no raw identifier is matched by more than one rule, so the rules
\* applied in any order give the units, scaling and attributes the function
\* gives.
C14_RulesExclusiveAnyOrder ==
    /\ Cardinality(Matched(r_in.var_name)) <= 1
    /\ (r_done = NRules /\ r_out # Unbound) => r_cube = r_out

\* C14 amended: every raw identifier but 'e' and 'sf' is matched by at most
\* one rule and gets the same result in any order; 'e' and 'sf' are matched
\* by the unit reset and by the water flux rule, and get the units of the
\* function exactly when the reset is applied first, the scaling and the
\* attributes in any order.
C14_ExclusiveButEvaporationAndSnowfall ==
    /\ r_in.var_name \notin {"e", "sf"} =>
        /\ Cardinality(Matched(r_in.var_name)) <= 1
        /\ (r_done = NRules /\ r_out # Unbound) => r_cube = r_out
    /\ r_in.var_name \in {"e", "sf"} =>
        /\ Matched(r_in.var_name) = {1, 2}
        /\ (r_done = NRules /\ r_out # Unbound) =>
            /\ r_cube = r_out <=> Before(1, 2)
            /\ r_cube.scale = r_out.scale
            /\ r_cube.positive = r_out.positive

\* evaporation with the water flux rule applied before the unit reset ends
\* in m, the function gives kg m-2 day-1
C14_Witness ==
    /\ r_in.var_name = "e"
    /\ r_done = NRules
    /\ Before(2, 1)
    /\ r_out # Unbound
    /\ r_cube.units = [NoUnit EXCEPT !.m = 1]
    /\ r_out.units = [NoUnit EXCEPT !.kg = 1, !.m = -2, !.day = -1]

\* C15: the data are scaled by 1000 for {e, sf, tp, pev}, by 100 for
\* {lsm, tcc}, by 1/9.80665 for {z} and not at all for any other name, no
\* name by more than one factor; 'positive' is 'down' exactly for
\* {ssr, ssrd, tisr, hfds, iews, inss} and unset otherwise.
C15_ScalingAndPositiveByTable ==
    r_out # Unbound =>
        LET name == r_in.var_name
            factor == CASE name \in {"e", "sf", "tp", "pev"} -> [num |-> 1000, den |-> 1]
                        [] name \in {"lsm", "tcc"} -> [num |-> 100, den |-> 1]
                        [] name \in {"z"} -> [num |-> 100000, den |-> 980665]
                        [] OTHER -> [num |-> 1, den |-> 1]
        IN  /\ r_out.scale = factor
            /\ Cardinality({r \in Matched(name) :
                    ApplyRule(r, r_in, r_definition).scale # r_in.scale}) <= 1
            /\ r_out.positive =
                IF name \in {"ssr", "ssrd", "tisr", "hfds", "iews", "inss"}
                THEN "down" ELSE "unset"
            /\ r_out.var_name = name

\* the function was called on the heat flux hfds
C15_Witness ==
    /\ r_out # Unbound
    /\ r_in.var_name = "hfds"
    /\ r_out.positive = "down"
    /\ r_out.scale = One


(***************************************************************************)
(* _fix_frequency on its own.  The cube is modelled along its time         *)
(* dimension: the time points in seconds, the time bounds (<<>>: none),    *)
(* the value at each point and the auxiliary coordinates on the cube.      *)
(***************************************************************************)
MaxTimes == 4
DaySeconds == 86400
Midday == 43200
\* the raw fields come at 00:00 and 12:00
TimeStep == 43200

DayOf(t) == t \div DaySeconds

DailyMips == {"day", "Eday", "CFday"}
Mips == DailyMips \cup {"Amon"}
CmipNames ==
    {"tasmax", "tasmin", "pr", "rsds", "hfds", "evspsbl", "rsdt", "rss", "prsn",
     "tas", "psl"}

\* snowfall left out of the test of line 159
ShiftNames_without_prsn ==
    {"tasmax", "tasmin", "pr", "rsds", "hfds", "evspsbl", "rsdt", "rss"}

\* lines 159-161: the names whose 00:00 counts as 24:00 of the day before
ShiftNames ==
    {"tasmax", "tasmin", "pr", "rsds", "hfds", "evspsbl", "rsdt", "rss", "prsn"}

\* the time point left where it is
ShiftBack_not(t) == t

\* lines 162-167: cell.point - timedelta(seconds=1)
ShiftBack(t) == t - 1

\* the minimum temperature reduced like the maximum temperature
Reducer_tasmin_max(name) ==
    CASE name = "tasmax" -> "max"
      [] name = "tasmin" -> "max"
      [] name \in {"pr", "rsds", "hfds", "evspsbl", "rsdt", "rss", "prsn"} -> "sum"
      [] OTHER -> "mean"

\* lines 168-176: the if/elif chain that picks the operator
Reducer(name) ==
    CASE name = "tasmax" -> "max"
      [] name = "tasmin" -> "min"
      [] name \in {"pr", "rsds", "hfds", "evspsbl", "rsdt", "rss", "prsn"} -> "sum"
      [] OTHER -> "mean"

\* the days the time points fall on, in increasing order
GroupDays(times) ==
    LET ds == {DayOf(times[i]) : i \in DOMAIN times}
    IN  [k \in 1 .. Cardinality(ds) |->
            CHOOSE d \in ds : Cardinality({e \in ds : e < d}) = k - 1]

\* the positions of the points of day d
Members(times, d) == {i \in DOMAIN times : DayOf(times[i]) = d}

RECURSIVE SumOver(_, _)
SumOver(data, M) ==
    IF M = {} THEN 0
    ELSE LET i == CHOOSE j \in M : TRUE
         IN  data[i] + SumOver(data, M \ {i})

\* the aggregator applied to the values of one group, as a fraction
Reduce(op, data, M) ==
    CASE op = "max" ->
            [num |-> CHOOSE v \in {data[i] : i \in M} : \A i \in M : data[i] <= v,
             den |-> 1]
      [] op = "min" ->
            [num |-> CHOOSE v \in {data[i] : i \in M} : \A i \in M : v <= data[i],
             den |-> 1]
      [] op = "sum" -> [num |-> SumOver(data, M), den |-> 1]
      [] OTHER -> [num |-> SumOver(data, M), den |-> Cardinality(M)]

\* daily_statistics(cube, operator): the coordinates day_of_year and year
\* are added and the cube is aggregated by them; the time cell of a group
\* spans from its first to its last point
daily_statistics(c, op) ==
    LET days == GroupDays(c.times)
        first(k) == c.times[CHOOSE i \in Members(c.times, days[k]) :
                        \A j \in Members(c.times, days[k]) : i <= j]
        last(k) == c.times[CHOOSE i \in Members(c.times, days[k]) :
                        \A j \in Members(c.times, days[k]) : j <= i]
    IN  [c EXCEPT
            !.times = [k \in DOMAIN days |-> (first(k) + last(k)) \div 2],
            !.bounds = [k \in DOMAIN days |-> <<first(k), last(k)>>],
            !.data = [k \in DOMAIN days |-> Reduce(op, c.data, Members(c.times, days[k]))],
            !.aux = @ \cup {"day_of_year", "year"}]

\* cell.point.replace(hour=12, minute=0, second=0, microsecond=0)
AtMidday(t) == DayOf(t) * DaySeconds + Midday

FrequencyInit ==
    /\ NoDispatch
    /\ NoTask
    /\ NoRules
    /\ NoTime
    /\ q_var \in [mip : Mips]
    /\ \E name \in CmipNames :
        \E n \in 1 .. MaxTimes :
            \E start \in {DaySeconds, DaySeconds + TimeStep} :
                \E data \in [1 .. n -> DataVals] :
                    q_in = [var_name |-> name,
                            times |-> [i \in 1 .. n |-> start + (i - 1) * TimeStep],
                            bounds |-> <<>>,
                            data |-> data,
                            aux |-> {}]
    /\ q_cube = q_in
    /\ q_pc = "start"
    /\ q_steps = <<>>

\* line 157 is false and line 190 returns the cube
ReturnAsIs ==
    /\ q_pc = "start"
    /\ q_var.mip \notin DailyMips
    /\ q_pc' = "returned"
    /\ UNCHANGED <<q_var, q_in, q_cube, q_steps>>
    /\ UNCHANGED <<dvars, xvars, hvars, rvars, tvars>>

\* lines 159-167: the time points are moved back
ShiftTimes ==
    /\ q_pc = "start"
    /\ q_var.mip \in DailyMips
    /\ q_cube.var_name \in ShiftNames
    /\ q_cube' = [q_cube EXCEPT !.times = [i \in DOMAIN @ |-> ShiftBack(@[i])]]
    /\ q_pc' = "shifted"
    /\ q_steps' = Append(q_steps, "shift")
    /\ UNCHANGED <<q_var, q_in>>
    /\ UNCHANGED <<dvars, xvars, hvars, rvars, tvars>>

\* lines 168-176: one call of daily_statistics
Aggregate ==
    /\ q_var.mip \in DailyMips
    /\ \/ q_pc = "shifted"
       \/ q_pc = "start" /\ q_cube.var_name \notin ShiftNames
    /\ q_cube' = daily_statistics(q_cube, Reducer(q_cube.var_name))
    /\ q_pc' = "aggregated"
    /\ q_steps' = Append(q_steps, Reducer(q_cube.var_name))
    /\ UNCHANGED <<q_var, q_in>>
    /\ UNCHANGED <<dvars, xvars, hvars, rvars, tvars>>

\* lines 178-179: remove_coord of day_of_year and of year
RemoveHelpers ==
    /\ q_pc = "aggregated"
    /\ {"day_of_year", "year"} \subseteq q_cube.aux
    /\ q_cube' = [q_cube EXCEPT !.aux = @ \ {"day_of_year", "year"}]
    /\ q_pc' = "helpers_removed"
    /\ q_steps' = Append(q_steps, "remove_helpers")
    /\ UNCHANGED <<q_var, q_in>>
    /\ UNCHANGED <<dvars, xvars, hvars, rvars, tvars>>

\* lines 181-187: the time points are set to 12:00:00 of their day
ResetMidday ==
    /\ q_pc = "helpers_removed"
    /\ q_cube' = [q_cube EXCEPT !.times = [i \in DOMAIN @ |-> AtMidday(@[i])]]
    /\ q_pc' = "midday"
    /\ q_steps' = Append(q_steps, "midday")
    /\ UNCHANGED <<q_var, q_in>>
    /\ UNCHANGED <<dvars, xvars, hvars, rvars, tvars>>

\* line 188: bounds = None
ClearBounds ==
    /\ q_pc = "midday"
    /\ q_cube' = [q_cube EXCEPT !.bounds = <<>>]
    /\ q_pc' = "bounds_cleared"
    /\ q_steps' = Append(q_steps, "clear_bounds")
    /\ UNCHANGED <<q_var, q_in>>
    /\ UNCHANGED <<dvars, xvars, hvars, rvars, tvars>>

\* lines 189-190: guess_bounds(), and the cube is returned
GuessTimeBounds ==
    /\ q_pc = "bounds_cleared"
    /\ Len(q_cube.times) > 1
    /\ q_cube' = [q_cube EXCEPT !.bounds = GuessBounds(q_cube.times)]
    /\ q_pc' = "returned"
    /\ q_steps' = Append(q_steps, "guess_bounds")
    /\ UNCHANGED <<q_var, q_in>>
    /\ UNCHANGED <<dvars, xvars, hvars, rvars, tvars>>

\* line 189: guess_bounds() raises on a coordinate with a single point
GuessTimeBoundsRaises ==
    /\ q_pc = "bounds_cleared"
    /\ Len(q_cube.times) <= 1
    /\ q_pc' = "raised"
    /\ UNCHANGED <<q_var, q_in, q_cube, q_steps>>
    /\ UNCHANGED <<dvars, xvars, hvars, rvars, tvars>>

FrequencyNext ==
    \/ ReturnAsIs
    \/ ShiftTimes
    \/ Aggregate
    \/ RemoveHelpers
    \/ ResetMidday
    \/ ClearBounds
    \/ GuessTimeBounds
    \/ GuessTimeBoundsRaises

SpecFrequency == FrequencyInit /\ [][FrequencyNext]_vars

Reducers == {"max", "min", "sum", "mean"}
\* the positions of q_steps at which an aggregation ran
Aggregations == {i \in DOMAIN q_steps : q_steps[i] \in Reducers}
\* the time points the aggregation worked on
TimesAggregated ==
    [i \in DOMAIN q_in.times |->
        IF "shift" \in {q_steps[j] : j \in DOMAIN q_steps}
        THEN q_in.times[i] - 1 ELSE q_in.times[i]]
\* the values of the input that fall on day d of TimesAggregated
ValuesOn(d) ==
    {q_in.data[i] : i \in {j \in DOMAIN q_in.times : TimesAggregated[j] \div 86400 = d}}
RECURSIVE TotalOn(_, _)
TotalOn(d, n) ==
    IF n = 0 THEN 0
    ELSE TotalOn(d, n - 1)
            + (IF TimesAggregated[n] \div 86400 = d THEN q_in.data[n] ELSE 0)
CountOn(d) ==
    Cardinality({j \in DOMAIN q_in.times : TimesAggregated[j] \div 86400 = d})

\* C16: _fix_frequency aggregates only for the tables day, Eday and CFday
\* and otherwise returns the cube as it got it; when it aggregates it does
\* so once, with max for tasmax, min for tasmin, sum for pr, rsds, hfds,
\* evspsbl, rsdt, rss and prsn, and mean for every other variable.
C16_OneReducerForDailyTablesOnly ==
    /\ q_var.mip \notin {"day", "Eday", "CFday"} =>
        /\ Aggregations = {}
        /\ q_cube = q_in
        /\ q_pc \in {"start", "returned"}
    /\ (q_var.mip \in {"day", "Eday", "CFday"}
            /\ q_pc \notin {"start", "shifted"}) =>
        /\ Cardinality(Aggregations) = 1
        /\ \A i \in Aggregations :
            q_steps[i] =
                CASE q_in.var_name = "tasmax" -> "max"
                  [] q_in.var_name = "tasmin" -> "min"
                  [] q_in.var_name \in {"pr", "rsds", "hfds", "evspsbl", "rsdt",
                                        "rss", "prsn"} -> "sum"
                  [] OTHER -> "mean"
        /\ \A k \in DOMAIN q_cube.data :
            LET d == q_cube.times[k] \div 86400
                v == q_cube.data[k]
            IN  /\ CountOn(d) > 0
                /\ q_in.var_name = "tasmax" =>
                    v.den = 1 /\ v.num \in ValuesOn(d) /\ \A w \in ValuesOn(d) : w <= v.num
                /\ q_in.var_name = "tasmin" =>
                    v.den = 1 /\ v.num \in ValuesOn(d) /\ \A w \in ValuesOn(d) : v.num <= w
                /\ q_in.var_name \in {"pr", "rsds", "hfds", "evspsbl", "rsdt", "rss", "prsn"} =>
                    v.den = 1 /\ v.num = TotalOn(d, Len(q_in.times))
                /\ q_in.var_name \in {"tas", "psl"} =>
                    v.den = CountOn(d) /\ v.num = TotalOn(d, Len(q_in.times))
    /\ (q_var.mip \in {"day", "Eday", "CFday"} /\ q_pc \in {"start", "shifted"}) =>
        Aggregations = {}

\* the minimum of a day with the values 1 and 0 was taken
C16_Witness ==
    /\ q_pc = "returned"
    /\ q_var.mip = "Eday"
    /\ q_in.var_name = "tasmin"
    /\ q_in.data = <<1, 1, 0, 1>>
    /\ q_in.times[1] = 86400 + 43200
    /\ q_cube.data = <<[num |-> 1, den |-> 1], [num |-> 0, den |-> 1]>>

\* C17: the sub-steps run in the order shift, aggregate, remove the helper
\* coordinates, reset to 12:00:00, clear and regenerate the bounds; the
\* shift comes before the aggregation, so a 00:00 stamp is grouped into the
\* day before.
C17_SubStepOrder ==
    LET names == [i \in DOMAIN q_steps |->
                    IF q_steps[i] \in Reducers THEN "aggregate" ELSE q_steps[i]]
        order == <<"shift", "aggregate", "remove_helpers", "midday",
                   "clear_bounds", "guess_bounds">>
        shifted == "shift" \in {q_steps[j] : j \in DOMAIN q_steps}
        done(step) == step \in {names[j] : j \in DOMAIN names}
    IN  /\ \/ names = SubSeq(order, 1, Len(names))
           \/ names = SubSeq(order, 2, Len(names) + 1)
        /\ q_pc = "returned" /\ q_var.mip \in {"day", "Eday", "CFday"} =>
            \A k \in 2 .. 6 : done(order[k])
        /\ (shifted /\ done("aggregate")) =>
            /\ names[1] = "shift"
            /\ \A i \in DOMAIN q_in.times :
                q_in.times[i] % 86400 = 0 =>
                    \E k \in DOMAIN q_cube.times :
                        /\ q_cube.times[k] \div 86400 = q_in.times[i] \div 86400 - 1
                        /\ (q_in.var_name = "pr" /\ q_in.data[i] = 1) =>
                            q_cube.data[k].num >= 1
            /\ Len(q_cube.times) =
                Cardinality({(q_in.times[i] - 1) \div 86400 : i \in DOMAIN q_in.times})
        /\ done("aggregate") /\ ~done("remove_helpers") =>
            q_cube.aux = {"day_of_year", "year"}
        /\ done("remove_helpers") => q_cube.aux = {}
        /\ done("midday") =>
            \A k \in DOMAIN q_cube.times : q_cube.times[k] % 86400 = 12 * 3600
        /\ done("clear_bounds") /\ ~done("guess_bounds") => q_cube.bounds = <<>>
        /\ done("guess_bounds") =>
            /\ Len(q_cube.bounds) = Len(q_cube.times)
            /\ \A k \in DOMAIN q_cube.times :
                q_cube.bounds[k] = <<q_cube.times[k] - 12 * 3600,
                                     q_cube.times[k] + 12 * 3600>>

\* precipitation stamped 00:00 of day 2 was summed into day 1
C17_Witness ==
    /\ q_pc = "returned"
    /\ q_in.var_name = "pr"
    /\ q_in.times = <<86400 + 43200, 2 * 86400, 2 * 86400 + 43200>>
    /\ q_in.data = <<1, 1, 0>>
    /\ q_cube.times = <<86400 + 43200, 2 * 86400 + 43200>>
    /\ q_cube.data = <<[num |-> 2, den |-> 1], [num |-> 0, den |-> 1]>>

\* C20: the variables whose time points are shifted before the aggregation
\* are exactly the variables aggregated with max, min or sum.
C20_ShiftedIffNotMean ==
    /\ Aggregations # {} =>
        ("shift" \in {q_steps[j] : j \in DOMAIN q_steps}
            <=> \E i \in Aggregations : q_steps[i] \in {"max", "min", "sum"})
    /\ \A i \in DOMAIN q_steps :
        q_steps[i] = "shift" =>
            \A j \in Aggregations : i < j

\* snowfall was shifted and summed
C20_Witness ==
    /\ q_in.var_name = "prsn"
    /\ q_pc = "aggregated"
    /\ q_steps = <<"shift", "sum">>


(***************************************************************************)
(* fix_time_coord_duveiller2018 on its own.  A datetime is the record of   *)
(* its fields; datetime arithmetic and date2num go through the number of   *)
(* hours since 1950-01-01 00:00 in the Gregorian calendar.  A converted    *)
(* number of days is the fraction num / den.                               *)
(***************************************************************************)
MaxExtraMonths == 1
NMonths == 12
EpochYear == 1950
DataYear == 2010

datetime(y, m, d) == [year |-> y, month |-> m, day |-> d, hour |-> 0]

IsLeap(y) == y % 4 = 0 /\ (y % 100 # 0 \/ y % 400 = 0)
DaysInYear(y) == IF IsLeap(y) THEN 366 ELSE 365
DaysInMonth(y, m) ==
    CASE m \in {4, 6, 9, 11} -> 30
      [] m = 2 -> IF IsLeap(y) THEN 29 ELSE 28
      [] OTHER -> 31

RECURSIVE DaysBeforeYear(_)
DaysBeforeYear(y) ==
    IF y <= EpochYear THEN 0 ELSE DaysBeforeYear(y - 1) + DaysInYear(y - 1)

RECURSIVE DaysBeforeMonth(_, _)
DaysBeforeMonth(y, m) ==
    IF m <= 1 THEN 0 ELSE DaysBeforeMonth(y, m - 1) + DaysInMonth(y, m - 1)

\* the hours from the epoch to a datetime
ToHours(dt) ==
    (DaysBeforeYear(dt.year) + DaysBeforeMonth(dt.year, dt.month) + dt.day - 1) * 24
        + dt.hour

\* the datetime a number of hours after the epoch
RECURSIVE YearAt(_, _)
YearAt(days, y) ==
    IF days < DaysInYear(y) THEN [year |-> y, rest |-> days]
    ELSE YearAt(days - DaysInYear(y), y + 1)
RECURSIVE MonthAt(_, _, _)
MonthAt(days, y, m) ==
    IF days < DaysInMonth(y, m) THEN [month |-> m, rest |-> days]
    ELSE MonthAt(days - DaysInMonth(y, m), y, m + 1)
FromHours(h) ==
    LET ya == YearAt(h \div 24, EpochYear)
        ma == MonthAt(ya.rest, ya.year, 1)
    IN  [year |-> ya.year, month |-> ma.month, day |-> ma.rest + 1, hour |-> h % 24]

\* December closed at the last day of the year
time_bnd_b_last_day(m) ==
    IF m = 12 THEN datetime(DataYear, 12, 31) ELSE datetime(DataYear, m + 1, 1)

\* line 62
time_bnd_a(m) == datetime(DataYear, m, 1)

\* lines 63-66
time_bnd_b(m) ==
    IF m = 12 THEN datetime(DataYear + 1, 1, 1) ELSE datetime(DataYear, m + 1, 1)

\* line 68: time_bnd_a + 0.5 * (time_bnd_b - time_bnd_a)
time_midpoint(a, b) == FromHours(ToHours(a) + (ToHours(b) - ToHours(a)) \div 2)

\* cf_units.date2num(..., 'days since 1950-01-01', CALENDAR_GREGORIAN)
date2num(dt) == [num |-> ToHours(dt), den |-> 24]

TimeInit ==
    /\ NoDispatch
    /\ NoTask
    /\ NoRules
    /\ NoFrequency
    /\ \E name \in {"Month", "time"} :
        \E n \in NMonths - MaxExtraMonths .. NMonths + MaxExtraMonths :
            \E first \in {0, 1} :
                \E units \in {"1", "months"} :
                    t_coord = [name |-> name,
                               points |-> [i \in 1 .. n |-> first + i - 1],
                               bounds |-> <<>>,
                               units |-> units]
    /\ t_pc = "start"
    /\ n_month = 0
    /\ custom_time = <<>>
    /\ custom_time_bounds = <<>>
    /\ time_bnds = Unbound
    /\ time_midpoints = Unbound

\* line 50: cube.coord('Month').rename('time')
RenameMonth ==
    /\ t_pc = "start"
    /\ t_coord.name = "Month"
    /\ t_coord' = [t_coord EXCEPT !.name = "time"]
    /\ t_pc' = "loop"
    /\ UNCHANGED <<n_month, custom_time, custom_time_bounds, time_bnds, time_midpoints>>
    /\ UNCHANGED <<dvars, xvars, hvars, rvars, qvars>>

\* line 50: the cube has no coordinate 'Month'
RenameRaises ==
    /\ t_pc = "start"
    /\ t_coord.name # "Month"
    /\ t_pc' = "raised"
    /\ UNCHANGED <<t_coord, n_month, custom_time, custom_time_bounds, time_bnds,
                   time_midpoints>>
    /\ UNCHANGED <<dvars, xvars, hvars, rvars, qvars>>

\* lines 59-71: one pass of the loop over the twelve months
FillMonth ==
    /\ t_pc = "loop"
    /\ n_month < NMonths
    /\ n_month' = n_month + 1
    /\ custom_time_bounds' =
        Append(custom_time_bounds, <<time_bnd_a(n_month + 1), time_bnd_b(n_month + 1)>>)
    /\ custom_time' =
        Append(custom_time, time_midpoint(time_bnd_a(n_month + 1), time_bnd_b(n_month + 1)))
    /\ UNCHANGED <<t_coord, t_pc, time_bnds, time_midpoints>>
    /\ UNCHANGED <<dvars, xvars, hvars, rvars, qvars>>

\* lines 74-77: both arrays are converted to numbers
ConvertTimes ==
    /\ t_pc = "loop"
    /\ n_month = NMonths
    /\ time_bnds' = [i \in DOMAIN custom_time_bounds |->
                        <<date2num(custom_time_bounds[i][1]),
                          date2num(custom_time_bounds[i][2])>>]
    /\ time_midpoints' = [i \in DOMAIN custom_time |-> date2num(custom_time[i])]
    /\ t_pc' = "converted"
    /\ UNCHANGED <<t_coord, n_month, custom_time, custom_time_bounds>>
    /\ UNCHANGED <<dvars, xvars, hvars, rvars, qvars>>

\* lines 80-84: bounds, points and units of the coordinate are set
SetTimeCoord ==
    /\ t_pc = "converted"
    /\ Len(t_coord.points) = Len(time_bnds)
    /\ t_coord' = [t_coord EXCEPT !.bounds = time_bnds,
                                  !.points = time_midpoints,
                                  !.units = "days since 1950-01-01"]
    /\ t_pc' = "done"
    /\ UNCHANGED <<n_month, custom_time, custom_time_bounds, time_bnds, time_midpoints>>
    /\ UNCHANGED <<dvars, xvars, hvars, rvars, qvars>>

\* line 80: the bounds do not have the shape of the points of the coordinate
SetTimeCoordRaises ==
    /\ t_pc = "converted"
    /\ Len(t_coord.points) # Len(time_bnds)
    /\ t_pc' = "raised"
    /\ UNCHANGED <<t_coord, n_month, custom_time, custom_time_bounds, time_bnds,
                   time_midpoints>>
    /\ UNCHANGED <<dvars, xvars, hvars, rvars, qvars>>

TimeNext ==
    \/ RenameMonth
    \/ RenameRaises
    \/ FillMonth
    \/ ConvertTimes
    \/ SetTimeCoord
    \/ SetTimeCoordRaises

SpecTime == TimeInit /\ [][TimeNext]_vars

\* a number of whole days as a converted number
Days(n) == [num |-> n * 24, den |-> 24]

\* C21: the twelve monthly cells tile the year 2010 without gap or overlap:
\* the first lower bound is 2010-01-01, the last upper bound is 2011-01-01,
\* the upper bound of month i is the lower bound of month i+1, and every
\* time point is the midpoint of its cell, strictly between its bounds.
C21_MonthlyCellsTileTheYear ==
    /\ \A i \in DOMAIN custom_time_bounds :
        /\ i = 1 => custom_time_bounds[i][1] =
                        [year |-> 2010, month |-> 1, day |-> 1, hour |-> 0]
        /\ i = 12 => custom_time_bounds[i][2] =
                        [year |-> 2011, month |-> 1, day |-> 1, hour |-> 0]
        /\ i > 1 => custom_time_bounds[i][1] = custom_time_bounds[i - 1][2]
        /\ custom_time[i].year = 2010 /\ custom_time[i].month = i
    /\ t_pc = "done" =>
        /\ t_coord.name = "time"
        /\ t_coord.units = "days since 1950-01-01"
        /\ Len(t_coord.points) = 12
        /\ Len(t_coord.bounds) = 12
        /\ t_coord.bounds[1][1] = Days(21915)
        /\ t_coord.bounds[12][2] = Days(21915 + 365)
        /\ \A i \in 1 .. 11 : t_coord.bounds[i][2] = t_coord.bounds[i + 1][1]
        /\ \A i \in 1 .. 12 :
            LET a == t_coord.bounds[i][1]
                b == t_coord.bounds[i][2]
                p == t_coord.points[i]
            IN  /\ a.den = 24 /\ b.den = 24 /\ p.den = 24
                /\ 2 * p.num = a.num + b.num
                /\ a.num < p.num /\ p.num < b.num

\* the coordinate was set: January is centred on 15.5 days, February on 14
\* days after its start
C21_Witness ==
    /\ t_pc = "done"
    /\ t_coord.points[1] = [num |-> 21915 * 24 + 15 * 24 + 12, den |-> 24]
    /\ t_coord.points[2] = [num |-> (21915 + 31 + 14) * 24, den |-> 24]
    /\ custom_time[1] = [year |-> 2010, month |-> 1, day |-> 16, hour |-> 12]

====
